---- MODULE Spec2Model ----
(***************************************************************************)
(* A3C-tensorflow: the actor-learner threads (actor_learner_thread.py) and *)
(* the coordinator that starts and joins them (main.py).                   *)
(*                                                                         *)
(* Each worker is a thread running ActorLearnerThread.run; the state of a  *)
(* worker is its fields (t, t_start, stop, the local gradient variables),  *)
(* the locals of run/play_game that live across statements, and its        *)
(* position pc in run.  The shared network (parameters, optimizer, global  *)
(* step counter) lives in shared_network.py, the network in                *)
(* a3c_network.py and the environment in ale_environment.py; what the      *)
(* workers use of them is modelled by the operators marked below.          *)
(*                                                                         *)
(* Numbers.  A return is kept exactly, as the list of its coefficients in  *)
(* powers of gamma (<<c0, c1, c2>> is c0 + c1*gamma + c2*gamma^2), so that *)
(* r = reward + gamma * r is computed without rounding.                    *)
(***************************************************************************)
EXTENDS Integers, Sequences, FiniteSets, TLC

(* ---------------------------------------------------------------- bounds *)
\* FLAGS.threads_num of the concurrent configuration (main.py:22, default 8).
MaxThreads == 2
\* self.t_max (actor_learner_thread.py:11 sets 10): the rollout horizon, which
\* run() also uses as the ceiling of the global step (line 139).  The model
\* checks a smaller horizon; every formula names t_max, never its value.
t_max == 2
\* FLAGS.global_t_max (main.py:23, default 1e9): the configured maximum.
global_t_max == 4
\* len(self.local_network.weights_and_biases()) (asserted to be 10).
NumTensors == 2
\* self.num_channels (actor_learner_thread.py:19, from the network's shape).
num_channels == 2

(* ------------------------------------------------------------- constants *)
skip_num == 4
grad_clip == 40
NUM_ACTIONS == 4

VARIABLES
  threads_num,     \* FLAGS.threads_num, fixed at start
  shared_counter,  \* shared_network.shared_counter (the global step)
  shared_params,   \* shared_network.weights_and_biases(), one value per tensor
  apply_steps,     \* the step values the applies resulted in, in order
  pc,              \* per worker: position in run()
  stop,            \* per worker: self.stop
  t,               \* per worker: self.t
  t_start,         \* per worker: self.t_start
  local_params,    \* per worker: local_network.weights_and_biases()
  local_grads,     \* per worker: self.local_grads (the accumulator variables)
  grads,           \* per worker: tf.gradients output of the last accumulate run
  clipped_grads,   \* per worker: what the last apply run handed to the optimizer
  sync_idx,        \* per worker: next tensor sync_network_parameters copies
  env_terminal,    \* per worker: environment.is_end_state()
  env_acts,        \* per worker: number of environment.act calls so far
  initial_state,   \* per worker: run() local
  state,           \* per worker: play_game local
  next_state,      \* per worker: play_game local
  reward,          \* per worker: play_game local
  history,         \* per worker: play_game/run local
  last_state,      \* per worker: run() local
  r,               \* per worker: run() local
  states_batch,    \* per worker: run() local
  action_batch,    \* per worker: run() local
  reward_batch,    \* per worker: run() local
  iters,           \* per worker: loop tests passed (iterations begun)
  applies,         \* per worker: update_shared_gradients calls completed
  interrupted,     \* a SIGINT has been delivered
  main_pc,         \* coordinator: position in __main__
  loop_listener,   \* per worker: the listener main registers on it, or None
  listener_calls,  \* per worker: the calls of its listener, <<worker, iteration>>
  env_rewards,     \* per worker: the rewards environment.act returned in this
                   \* rollout, one list of skip_num rewards per step
  episode_start    \* per worker: env_acts at the last environment.reset()

vars == <<threads_num, shared_counter, shared_params, apply_steps, pc, stop, t,
          t_start, local_params, local_grads, grads, clipped_grads, sync_idx,
          env_terminal, env_acts, initial_state, state, next_state, reward,
          history, last_state, r, states_batch, action_batch, reward_batch,
          iters, applies, interrupted, main_pc, loop_listener, listener_calls,
          env_rewards, episode_start>>

Workers == 1..threads_num
Tensors == 1..NumTensors
None == <<>>

(* ------------------------------------------------------------ input sets *)
\* The single-worker configuration draws its inputs from wider sets than the
\* concurrent ones, whose state is the product over the workers.
Wide == threads_num = 1

\* The rewards of the skip_num environment.act calls of one step.
RewardSeq(a, b) ==
  [i \in 1..skip_num |-> IF i = 1 THEN a ELSE IF i = 3 THEN b ELSE 0]

RewardSeqs ==
  IF Wide THEN {RewardSeq(0, 0), RewardSeq(3, 1), RewardSeq(-2, 0)}
  ELSE {RewardSeq(3, 1)}

\* One gradient value per tensor, as tf.gradients returns them.
Gradient(a, b) == [i \in Tensors |-> IF i = 1 THEN a ELSE b]

Gradients ==
  IF Wide THEN {Gradient(7, 7), Gradient(-50, -50), Gradient(60, -3)}
  ELSE {Gradient(-50, 7)}

(* ------------------------------------------------------- exact arithmetic *)
\* A real number c0 + c1*gamma + c2*gamma^2 + ... is the list of its
\* coefficients <<c0, c1, c2, ...>>.
Real(c) == <<c>>

\* c + self.gamma * x for a number c (gamma = 0.99 at
\* actor_learner_thread.py:23): the coefficients of x move up by one power.
PlusGammaTimes(c, x) == <<c>> \o x

(* ------------------------------------------------- external collaborators *)
\* environment.available_actions()
available_actions ==
  IF Wide THEN {0, 1, NUM_ACTIONS - 1} ELSE {1}

\* The screen environment.act returns: screens are told apart by the number
\* of the act call that produced them.
Screen(acts) == acts

\* local_network.value on one state: a function of the local parameters and
\* of the state, here of the first tensor and the newest screen.
value(theta, s) == ((theta[1] + s[Len(s)] \div skip_num) % 3) - 1

\* np.clip([x], lo, hi)[0] and tf.clip_by_value(x, lo, hi) on one element
clip(x, lo, hi) == IF x < lo THEN lo ELSE IF x > hi THEN hi ELSE x

\* extract_history: np.zeros(actor_outputs) with a 1 at the action's index
one_hot(a) == [i \in 1..NUM_ACTIONS |-> IF i = a + 1 THEN 1 ELSE 0]

zeros == [i \in Tensors |-> 0]

(* ------------------------------------------------------------------ Init *)
InitFor(n) ==
  /\ threads_num = n
  /\ shared_counter = 0
  /\ shared_params = [i \in Tensors |-> 0]
  /\ apply_steps = <<>>
  /\ pc = [w \in 1..n |-> "loop"]
  /\ stop = [w \in 1..n |-> FALSE]
  /\ t = [w \in 1..n |-> 1]
  /\ t_start = [w \in 1..n |-> 1]
  /\ local_params = [w \in 1..n |-> [i \in Tensors |-> -1]]
  /\ local_grads = [w \in 1..n |-> zeros]
  /\ grads = [w \in 1..n |-> None]
  /\ clipped_grads = [w \in 1..n |-> None]
  /\ sync_idx = [w \in 1..n |-> 1]
  /\ env_terminal = [w \in 1..n |-> FALSE]
  /\ env_acts = [w \in 1..n |-> 0]
  /\ initial_state = [w \in 1..n |-> None]
  /\ state = [w \in 1..n |-> None]
  /\ next_state = [w \in 1..n |-> None]
  /\ reward = [w \in 1..n |-> 0]
  /\ history = [w \in 1..n |-> <<>>]
  /\ last_state = [w \in 1..n |-> None]
  /\ r = [w \in 1..n |-> <<>>]
  /\ states_batch = [w \in 1..n |-> <<>>]
  /\ action_batch = [w \in 1..n |-> <<>>]
  /\ reward_batch = [w \in 1..n |-> <<>>]
  /\ iters = [w \in 1..n |-> 0]
  /\ applies = [w \in 1..n |-> 0]
  /\ interrupted = FALSE
  /\ main_pc = "join"
  /\ loop_listener = [w \in 1..n |-> IF w = 1 THEN <<"loop_listener">> ELSE None]
  /\ listener_calls = [w \in 1..n |-> <<>>]
  /\ env_rewards = [w \in 1..n |-> <<>>]
  /\ episode_start = [w \in 1..n |-> 0]

\* All threads have been started (main.py:125-126).
Init == InitFor(MaxThreads)

\* The same program run with --threads_num=1.
InitSingle == InitFor(1)

(* --------------------------------------------------------------- workers *)
\* run(), line 139-140: the test of the outer loop.  The locals of the
\* previous iteration are dead here (each is assigned before its next read)
\* and the tensors of the previous session.run calls are gone.
loop_continues_inclusive(w) == shared_counter <= t_max /\ stop[w] = FALSE

loop_continues(w) == shared_counter < t_max /\ stop[w] = FALSE

loop_test(w) ==
  /\ pc[w] = "loop"
  /\ IF loop_continues(w)
     THEN /\ pc' = [pc EXCEPT ![w] = "reset_gradients"]
          /\ iters' = [iters EXCEPT ![w] = @ + 1]
     ELSE /\ pc' = [pc EXCEPT ![w] = "done"]
          /\ UNCHANGED iters
  /\ grads' = [grads EXCEPT ![w] = None]
  /\ clipped_grads' = [clipped_grads EXCEPT ![w] = None]
  /\ initial_state' = [initial_state EXCEPT ![w] = None]
  /\ state' = [state EXCEPT ![w] = None]
  /\ next_state' = [next_state EXCEPT ![w] = None]
  /\ reward' = [reward EXCEPT ![w] = 0]
  /\ history' = [history EXCEPT ![w] = <<>>]
  /\ last_state' = [last_state EXCEPT ![w] = None]
  /\ r' = [r EXCEPT ![w] = <<>>]
  /\ states_batch' = [states_batch EXCEPT ![w] = <<>>]
  /\ action_batch' = [action_batch EXCEPT ![w] = <<>>]
  /\ reward_batch' = [reward_batch EXCEPT ![w] = <<>>]
  /\ env_rewards' = [env_rewards EXCEPT ![w] = <<>>]
  /\ UNCHANGED <<threads_num, shared_counter, shared_params, apply_steps, stop,
                 t, t_start, local_params, local_grads, sync_idx, env_terminal,
                 env_acts, applies, interrupted, main_pc, loop_listener,
                 listener_calls, episode_start>>

\* variant: the reset comes after the sync and leads to the warm-up
reset_gradients_after_sync(w) ==
  /\ pc[w] = "reset_gradients"
  /\ local_grads' = [local_grads EXCEPT ![w] = zeros]
  /\ sync_idx' = [sync_idx EXCEPT ![w] = 1]
  /\ pc' = [pc EXCEPT ![w] = "get_initial_state"]
  /\ UNCHANGED <<threads_num, shared_counter, shared_params, apply_steps, stop,
                 t, t_start, local_params, grads, clipped_grads, env_terminal,
                 env_acts, initial_state, state, next_state, reward, history,
                 last_state, r, states_batch, action_batch, reward_batch,
                 iters, applies, interrupted, main_pc, loop_listener,
                 listener_calls, env_rewards, episode_start>>

\* variant: the iteration goes on without zeroing the accumulator
reset_gradients_skipped(w) ==
  /\ pc[w] = "reset_gradients"
  /\ sync_idx' = [sync_idx EXCEPT ![w] = 1]
  /\ pc' = [pc EXCEPT ![w] = "sync_network_parameters"]
  /\ UNCHANGED <<threads_num, shared_counter, shared_params, apply_steps, stop,
                 t, t_start, local_params, local_grads, grads, clipped_grads,
                 env_terminal, env_acts, initial_state, state, next_state,
                 reward, history, last_state, r, states_batch, action_batch,
                 reward_batch, iters, applies, interrupted, main_pc, loop_listener,
                 listener_calls, env_rewards, episode_start>>

\* reset_gradients (line 141, 243-244): every local gradient variable := zeros
reset_gradients(w) ==
  /\ pc[w] = "reset_gradients"
  /\ local_grads' = [local_grads EXCEPT ![w] = zeros]
  /\ sync_idx' = [sync_idx EXCEPT ![w] = 1]
  /\ pc' = [pc EXCEPT ![w] = "sync_network_parameters"]
  /\ UNCHANGED <<threads_num, shared_counter, shared_params, apply_steps, stop,
                 t, t_start, local_params, grads, clipped_grads, env_terminal,
                 env_acts, initial_state, state, next_state, reward, history,
                 last_state, r, states_batch, action_batch, reward_batch,
                 iters, applies, interrupted, main_pc, loop_listener,
                 listener_calls, env_rewards, episode_start>>

\* variant: the workers' networks are one network, a sync writes every replica
sync_network_parameters_one_replica(w) ==
  /\ pc[w] = "sync_network_parameters"
  /\ local_params' =
       [v \in Workers |->
          [local_params[v] EXCEPT ![sync_idx[w]] = shared_params[sync_idx[w]]]]
  /\ IF sync_idx[w] = NumTensors
     THEN /\ sync_idx' = [sync_idx EXCEPT ![w] = 1]
          /\ pc' = [pc EXCEPT ![w] = "get_initial_state"]
     ELSE /\ sync_idx' = [sync_idx EXCEPT ![w] = @ + 1]
          /\ UNCHANGED pc
  /\ UNCHANGED <<threads_num, shared_counter, shared_params, apply_steps, stop,
                 t, t_start, local_grads, grads, clipped_grads, env_terminal,
                 env_acts, initial_state, state, next_state, reward, history,
                 last_state, r, states_batch, action_batch, reward_batch,
                 iters, applies, interrupted, main_pc, loop_listener,
                 listener_calls, env_rewards, episode_start>>

\* sync_network_parameters (line 142, 194-197): one assign op per tensor, run
\* by one session.run that other threads' runs are not excluded from.
sync_network_parameters(w) ==
  /\ pc[w] = "sync_network_parameters"
  /\ local_params' =
       [local_params EXCEPT ![w][sync_idx[w]] = shared_params[sync_idx[w]]]
  /\ IF sync_idx[w] = NumTensors
     THEN /\ sync_idx' = [sync_idx EXCEPT ![w] = 1]
          /\ pc' = [pc EXCEPT ![w] = "get_initial_state"]
     ELSE /\ sync_idx' = [sync_idx EXCEPT ![w] = @ + 1]
          /\ UNCHANGED pc
  /\ UNCHANGED <<threads_num, shared_counter, shared_params, apply_steps, stop,
                 t, t_start, local_grads, grads, clipped_grads, env_terminal,
                 env_acts, initial_state, state, next_state, reward, history,
                 last_state, r, states_batch, action_batch, reward_batch,
                 iters, applies, interrupted, main_pc, loop_listener,
                 listener_calls, env_rewards, episode_start>>

\* self.t_start = self.t (line 143), then get_initial_state (line 144,
\* 179-191): num_channels times skip_num random actions, keeping the last
\* screen of each group.  The environment may reach its end state meanwhile.
get_initial_state(w) ==
  /\ pc[w] = "get_initial_state"
  /\ t_start' = [t_start EXCEPT ![w] = t[w]]
  /\ initial_state' = [initial_state EXCEPT ![w] =
       [k \in 1..num_channels |-> Screen(env_acts[w] + k * skip_num)]]
  /\ env_acts' = [env_acts EXCEPT ![w] = @ + num_channels * skip_num]
  /\ \E ends \in BOOLEAN :
       env_terminal' = [env_terminal EXCEPT ![w] = @ \/ ends]
  /\ pc' = [pc EXCEPT ![w] = "environment_reset"]
  /\ UNCHANGED <<threads_num, shared_counter, shared_params, apply_steps, stop,
                 t, local_params, local_grads, grads, clipped_grads, sync_idx,
                 state, next_state, reward, history, last_state, r,
                 states_batch, action_batch, reward_batch, iters, applies,
                 interrupted, main_pc, loop_listener,
                 listener_calls, env_rewards, episode_start>>

\* self.environment.reset() (line 146), then the entry of play_game (line
\* 201-207): an empty history, the stacked initial state, reward = 0.
environment_reset(w) ==
  /\ pc[w] = "environment_reset"
  /\ env_terminal' = [env_terminal EXCEPT ![w] = FALSE]
  /\ history' = [history EXCEPT ![w] = <<>>]
  /\ state' = [state EXCEPT ![w] = initial_state[w]]
  /\ next_state' = [next_state EXCEPT ![w] = initial_state[w]]
  /\ reward' = [reward EXCEPT ![w] = 0]
  /\ pc' = [pc EXCEPT ![w] = "play_game"]
  /\ env_rewards' = [env_rewards EXCEPT ![w] = <<>>]
  /\ episode_start' = [episode_start EXCEPT ![w] = env_acts[w]]
  /\ UNCHANGED <<threads_num, shared_counter, shared_params, apply_steps, stop,
                 t, t_start, local_params, local_grads, grads, clipped_grads,
                 sync_idx, env_acts, initial_state, last_state, r,
                 states_batch, action_batch, reward_batch, iters, applies,
                 interrupted, main_pc, loop_listener,
                 listener_calls>>

\* variant: the rollout loop also tests the stop flag
play_game_continues_until_stop(w) ==
  env_terminal[w] = FALSE /\ (t[w] - t_start[w]) # t_max /\ stop[w] = FALSE

\* variant: the rollout loop takes one step more than the horizon
play_game_continues_past_horizon(w) ==
  env_terminal[w] = FALSE /\ (t[w] - t_start[w]) # t_max + 1

\* play_game, line 208: the test of the rollout loop
play_game_continues(w) ==
  env_terminal[w] = FALSE /\ (t[w] - t_start[w]) # t_max

\* the sum of the rewards of one step as the environment returned them
RECURSIVE RawSum(_)
RawSum(rs) == IF rs = <<>> THEN 0 ELSE Head(rs) + RawSum(Tail(rs))

\* variant: the rewards of the step are summed, and the sum is clamped
add_clipped_once(rew, rs) == rew + clip(RawSum(rs), -1, 1)

\* line 213-216: reward += clip(intermediate_reward, -1, 1) for each act
RECURSIVE add_clipped(_, _)
add_clipped(rew, rs) ==
  IF rs = <<>> THEN rew
  ELSE add_clipped(rew + clip(rs[1], -1, 1), Tail(rs))

\* play_game, line 209-223: one pass of the rollout loop
play_game_step(w) ==
  /\ pc[w] = "play_game"
  /\ play_game_continues(w)
  /\ \E action \in available_actions, rs \in RewardSeqs, ends \in BOOLEAN :
       LET st == next_state[w]
           rew == add_clipped(reward[w], rs)
           next_screen == Screen(env_acts[w] + skip_num)
       IN  /\ state' = [state EXCEPT ![w] = st]
           /\ reward' = [reward EXCEPT ![w] = rew]
           /\ history' = [history EXCEPT ![w] =
                Append(@, [state |-> st, action |-> action, reward |-> rew])]
           /\ next_state' = [next_state EXCEPT ![w] =
                Append(Tail(st), next_screen)]
           /\ env_terminal' = [env_terminal EXCEPT ![w] = ends]
           /\ env_rewards' = [env_rewards EXCEPT ![w] = Append(@, rs)]
  /\ env_acts' = [env_acts EXCEPT ![w] = @ + skip_num]
  /\ t' = [t EXCEPT ![w] = @ + 1]
  /\ UNCHANGED <<threads_num, shared_counter, shared_params, apply_steps, pc,
                 stop, t_start, local_params, local_grads, grads,
                 clipped_grads, sync_idx, initial_state, last_state, r,
                 states_batch, action_batch, reward_batch, iters, applies,
                 interrupted, main_pc, loop_listener,
                 listener_calls, episode_start>>

\* variant: play_game returns only from an episode that has ended
play_game_end_on_terminal_only(w) ==
  /\ pc[w] = "play_game"
  /\ ~play_game_continues(w)
  /\ env_terminal[w]
  /\ last_state' = [last_state EXCEPT ![w] = None]
  /\ pc' = [pc EXCEPT ![w] = "bootstrap"]
  /\ UNCHANGED <<threads_num, shared_counter, shared_params, apply_steps, stop,
                 t, t_start, local_params, local_grads, grads, clipped_grads,
                 sync_idx, env_terminal, env_acts, initial_state, state,
                 next_state, reward, history, r, states_batch, action_batch,
                 reward_batch, iters, applies, interrupted, main_pc, loop_listener,
                 listener_calls, env_rewards, episode_start>>

\* variant: the last state is returned whether or not the episode has ended
play_game_end_keeps_last_state(w) ==
  /\ pc[w] = "play_game"
  /\ ~play_game_continues(w)
  /\ last_state' = [last_state EXCEPT ![w] = next_state[w]]
  /\ pc' = [pc EXCEPT ![w] = "bootstrap"]
  /\ UNCHANGED <<threads_num, shared_counter, shared_params, apply_steps, stop,
                 t, t_start, local_params, local_grads, grads, clipped_grads,
                 sync_idx, env_terminal, env_acts, initial_state, state,
                 next_state, reward, history, r, states_batch, action_batch,
                 reward_batch, iters, applies, interrupted, main_pc, loop_listener,
                 listener_calls, env_rewards, episode_start>>

\* play_game, line 225-231: the loop has ended
play_game_end(w) ==
  /\ pc[w] = "play_game"
  /\ ~play_game_continues(w)
  /\ last_state' = [last_state EXCEPT ![w] =
       IF env_terminal[w] THEN None ELSE next_state[w]]
  /\ pc' = [pc EXCEPT ![w] = "bootstrap"]
  /\ UNCHANGED <<threads_num, shared_counter, shared_params, apply_steps, stop,
                 t, t_start, local_params, local_grads, grads, clipped_grads,
                 sync_idx, env_terminal, env_acts, initial_state, state,
                 next_state, reward, history, r, states_batch, action_batch,
                 reward_batch, iters, applies, interrupted, main_pc, loop_listener,
                 listener_calls, env_rewards, episode_start>>

\* run(), line 149-152: the value that seeds the returns
bootstrap_value(w) ==
  IF last_state[w] = None THEN Real(0)
  ELSE Real(value(local_params[w], last_state[w]))

bootstrap(w) ==
  /\ pc[w] = "bootstrap"
  /\ r' = [r EXCEPT ![w] = bootstrap_value(w)]
  /\ pc' = [pc EXCEPT ![w] = "compute_returns"]
  /\ UNCHANGED <<threads_num, shared_counter, shared_params, apply_steps, stop,
                 t, t_start, local_params, local_grads, grads, clipped_grads,
                 sync_idx, env_terminal, env_acts, initial_state, state,
                 next_state, reward, history, last_state, states_batch,
                 action_batch, reward_batch, iters, applies, interrupted,
                 main_pc, loop_listener,
                 listener_calls, env_rewards, episode_start>>

\* run(), line 157-164: for i in range((t - 1) - t_start, -1, -1), on the
\* history indexed from 1; rr is r, and sb, ab, rb are the three batches.
RECURSIVE returns_loop(_, _, _, _, _, _)
returns_loop(hist, i, rr, sb, ab, rb) ==
  IF i < 1 THEN [r |-> rr, states |-> sb, actions |-> ab, rewards |-> rb]
  ELSE returns_loop(hist, i - 1,
         PlusGammaTimes(hist[i].reward, rr),
         Append(sb, hist[i].state),
         Append(ab, one_hot(hist[i].action)),
         Append(rb, <<PlusGammaTimes(hist[i].reward, rr)>>))

\* variant: the returns are computed oldest record first
RECURSIVE returns_loop_forward(_, _, _, _, _, _)
returns_loop_forward(hist, i, rr, sb, ab, rb) ==
  IF i > Len(hist) THEN [r |-> rr, states |-> sb, actions |-> ab, rewards |-> rb]
  ELSE returns_loop_forward(hist, i + 1,
         PlusGammaTimes(hist[i].reward, rr),
         Append(sb, hist[i].state),
         Append(ab, one_hot(hist[i].action)),
         Append(rb, <<PlusGammaTimes(hist[i].reward, rr)>>))

returns_batches_forward(w) ==
  returns_loop_forward(history[w], 1, r[w], <<>>, <<>>, <<>>)

\* run(), line 154-164
returns_batches(w) ==
  returns_loop(history[w], t[w] - t_start[w], r[w], <<>>, <<>>, <<>>)

compute_returns(w) ==
  /\ pc[w] = "compute_returns"
  /\ LET b == returns_batches(w)
     IN  /\ r' = [r EXCEPT ![w] = b.r]
         /\ states_batch' = [states_batch EXCEPT ![w] = b.states]
         /\ action_batch' = [action_batch EXCEPT ![w] = b.actions]
         /\ reward_batch' = [reward_batch EXCEPT ![w] = b.rewards]
  /\ pc' = [pc EXCEPT ![w] = "accumulate_gradients"]
  /\ UNCHANGED <<threads_num, shared_counter, shared_params, apply_steps, stop,
                 t, t_start, local_params, local_grads, grads, clipped_grads,
                 sync_idx, env_terminal, env_acts, initial_state, state,
                 next_state, reward, history, last_state, iters, applies,
                 interrupted, main_pc, loop_listener,
                 listener_calls, env_rewards, episode_start>>

\* accumulate_gradients (line 166, 238-240; the ops of line 96-111): the
\* gradients of the loss on the batch, each added to its local variable
accumulate_gradients(w) ==
  /\ pc[w] = "accumulate_gradients"
  /\ \E g \in Gradients :
       /\ grads' = [grads EXCEPT ![w] = g]
       /\ local_grads' = [local_grads EXCEPT ![w] =
            [i \in Tensors |-> local_grads[w][i] + g[i]]]
  /\ pc' = [pc EXCEPT ![w] = "update_shared_gradients"]
  /\ UNCHANGED <<threads_num, shared_counter, shared_params, apply_steps, stop,
                 t, t_start, local_params, clipped_grads, sync_idx,
                 env_terminal, env_acts, initial_state, state, next_state,
                 reward, history, last_state, r, states_batch, action_batch,
                 reward_batch, iters, applies, interrupted, main_pc, loop_listener,
                 listener_calls, env_rewards, episode_start>>

\* variant: the op is built without a global_step
prepare_apply_gradients_no_global_step(w) ==
  [clipped |-> [i \in Tensors |-> clip(local_grads[w][i], -grad_clip, grad_clip)],
   global_step |-> "None"]

\* variant: the op is built on the local gradients as they are
prepare_apply_gradients_unclipped(w) ==
  [clipped |-> [i \in Tensors |-> local_grads[w][i]],
   global_step |-> "shared_counter"]

\* prepare_apply_gradients (line 129-134): the op handed to the optimizer,
\* the clipped local gradients and the counter given as global_step
prepare_apply_gradients(w) ==
  [clipped |-> [i \in Tensors |-> clip(local_grads[w][i], -grad_clip, grad_clip)],
   global_step |-> "shared_counter"]

\* The shared store's optimizer (shared_network.py): one apply is one step on
\* every tensor, and one increment of the variable given as global_step.  A
\* tensor's value is told apart by the number of the apply that wrote it.
optimizer_apply_gradients(op, params, counter) ==
  LET step == IF op.global_step = "shared_counter" THEN counter + 1 ELSE counter
  IN  [params |-> [i \in Tensors |-> Len(apply_steps) + 1], counter |-> step]

\* update_shared_gradients (line 168, 247-248): session.run(self.apply_grads)
update_shared_gradients(w) ==
  /\ pc[w] = "update_shared_gradients"
  /\ LET op == prepare_apply_gradients(w)
         new == optimizer_apply_gradients(op, shared_params, shared_counter)
     IN  /\ clipped_grads' = [clipped_grads EXCEPT ![w] = op.clipped]
         /\ shared_params' = new.params
         /\ shared_counter' = new.counter
         /\ apply_steps' = Append(apply_steps, new.counter)
  /\ applies' = [applies EXCEPT ![w] = @ + 1]
  /\ pc' = [pc EXCEPT ![w] = "loop"]
  /\ UNCHANGED <<threads_num, stop, t, t_start, local_params, local_grads,
                 grads, sync_idx, env_terminal, env_acts, initial_state, state,
                 next_state, reward, history, last_state, r, states_batch,
                 action_batch, reward_batch, iters, interrupted, main_pc, loop_listener,
                 listener_calls, env_rewards, episode_start>>

(* ------------------------------------------------- signals and coordinator *)
\* Every ActorLearnerThread.__init__ registers its own signal_handler for
\* SIGINT (line 41-42); the threads are constructed in order (main.py:113-121),
\* so the handler in place is the one of the last thread.
sigint_handler_owner == threads_num

\* signal_handler (line 263-265), run on a SIGINT
signal_handler ==
  /\ stop' = [stop EXCEPT ![sigint_handler_owner] = TRUE]
  /\ interrupted' = TRUE
  /\ UNCHANGED <<threads_num, shared_counter, shared_params, apply_steps, pc,
                 t, t_start, local_params, local_grads, grads, clipped_grads,
                 sync_idx, env_terminal, env_acts, initial_state, state,
                 next_state, reward, history, last_state, r, states_batch,
                 action_batch, reward_batch, iters, applies, main_pc, loop_listener,
                 listener_calls, env_rewards, episode_start>>

\* thread.isAlive()
isAlive(w) == pc[w] # "done"

\* main.py:128-130: one pass of the while True loop, joining (for at most 10
\* seconds each) the threads that are alive; the list of the results is not
\* used.  SIGINT runs signal_handler, so no KeyboardInterrupt is raised and
\* line 131-135, the only way out of the loop, is never entered.
main_join ==
  /\ main_pc = "join"
  /\ main_pc' = IF \E w \in Workers : isAlive(w) THEN "join" ELSE "join"
  /\ UNCHANGED <<threads_num, shared_counter, shared_params, apply_steps, pc,
                 stop, t, t_start, local_params, local_grads, grads,
                 clipped_grads, sync_idx, env_terminal, env_acts,
                 initial_state, state, next_state, reward, history,
                 last_state, r, states_batch, action_batch, reward_batch,
                 iters, applies, interrupted, loop_listener,
                 listener_calls, env_rewards, episode_start>>

(* ------------------------------------------------------------------ Next *)
Next ==
  \/ \E w \in Workers : loop_test(w)
  \/ \E w \in Workers : reset_gradients(w)
  \/ \E w \in Workers : sync_network_parameters(w)
  \/ \E w \in Workers : get_initial_state(w)
  \/ \E w \in Workers : environment_reset(w)
  \/ \E w \in Workers : play_game_step(w)
  \/ \E w \in Workers : play_game_end(w)
  \/ \E w \in Workers : bootstrap(w)
  \/ \E w \in Workers : compute_returns(w)
  \/ \E w \in Workers : accumulate_gradients(w)
  \/ \E w \in Workers : update_shared_gradients(w)
  \/ signal_handler
  \/ main_join

\* N concurrent workers
Spec == Init /\ [][Next]_vars

\* one worker, wider inputs
SpecSingle == InitSingle /\ [][Next]_vars

\* The threads get the processor and so does the coordinator; a SIGINT may
\* or may not come.
Fairness ==
  /\ \A w \in 1..MaxThreads :
       WF_vars(w \in Workers /\
               (\/ loop_test(w) \/ reset_gradients(w)
                \/ sync_network_parameters(w) \/ get_initial_state(w)
                \/ environment_reset(w) \/ play_game_step(w)
                \/ play_game_end(w) \/ bootstrap(w) \/ compute_returns(w)
                \/ accumulate_gradients(w) \/ update_shared_gradients(w)))
  /\ WF_vars(main_join)

FairSpec == Init /\ [][Next]_vars /\ Fairness

(* ---------------------------------------------------------------- claims *)
AfterRollout ==
  {"bootstrap", "compute_returns", "accumulate_gradients",
   "update_shared_gradients"}

RECURSIVE SumApplies(_)
SumApplies(n) == IF n = 0 THEN 0 ELSE applies[n] + SumApplies(n - 1)

\* C1: whatever the interleaving of the workers' update_shared_gradients,
\* after K applies in total the global step is its initial value 0 plus K,
\* the applies resulted in pairwise different step values, and the global
\* step never decreases.
C1_GlobalStepCountsApplies ==
  /\ [](/\ shared_counter = SumApplies(threads_num)
        /\ Len(apply_steps) = SumApplies(threads_num)
        /\ \A i, j \in 1..Len(apply_steps) :
             i # j => apply_steps[i] # apply_steps[j])
  /\ [][shared_counter' >= shared_counter]_vars

C1_Witness ==
  /\ \A w \in Workers : applies[w] >= 1
  /\ threads_num >= 2
  /\ Len(apply_steps) >= 3

\* C2: at the loop test a worker starts another iteration exactly when the
\* global step is below the configured maximum (global_t_max, what the
\* coordinator is given as --global_t_max) and its stop flag is clear;
\* otherwise it stops.
C2_LoopTestsConfiguredMaximum ==
  [][\A w \in Workers :
       (pc[w] = "loop" /\ pc'[w] # "loop") =>
         (pc'[w] = "reset_gradients"
            <=> (shared_counter < global_t_max /\ stop[w] = FALSE))]_vars

\* C3: a worker whose stop flag is raised after it passed the loop test
\* still finishes that iteration: its rollout ran to the horizon or to the
\* end state, and it accumulated and applied once for every iteration it
\* began before it is back at the loop test or has stopped.
C3_StopHonouredAtBoundaryOnly ==
  \A w \in Workers :
    stop[w] =>
      /\ pc[w] \in {"loop", "done"} => applies[w] = iters[w]
      /\ pc[w] \notin {"loop", "done"} => applies[w] = iters[w] - 1
      /\ pc[w] \in AfterRollout =>
           (Len(history[w]) = t_max \/ env_terminal[w])
      /\ (pc[w] = "loop" /\ iters[w] >= 1) =>
           (grads[w] # None /\ clipped_grads[w] # None)

\* the flag is up, the worker is back at the loop test of the iteration it
\* was in, with a full rollout accumulated and applied
C3_Witness ==
  \E w \in Workers :
    /\ stop[w] /\ pc[w] = "loop"
    /\ Len(history[w]) = t_max
    /\ clipped_grads[w] # None
    /\ applies[w] = iters[w] /\ iters[w] >= 2

\* C4: once a SIGINT has been delivered, the stop flag of every worker is
\* raised.
C4_SigintRaisesEveryStopFlag ==
  interrupted => \A w \in Workers : stop[w]

\* C5: once every worker has left run(), the coordinator eventually gets
\* out of its wait loop and finishes.
C5_CoordinatorFinishes ==
  (\A w \in Workers : pc[w] = "done") ~> (main_pc = "finished")

\* C6: a rollout appends at most t_max step records; while the rollout loop
\* runs and when it has exited, t - t_start is the number of records and at
\* most t_max; it has exited with fewer than t_max records only with the
\* environment in its end state.
C6_RolloutHorizon ==
  \A w \in Workers :
    /\ Len(history[w]) <= t_max
    /\ pc[w] \in {"play_game"} \cup AfterRollout =>
         /\ t[w] - t_start[w] = Len(history[w])
         /\ t[w] - t_start[w] <= t_max
    /\ pc[w] \in AfterRollout =>
         (Len(history[w]) < t_max => env_terminal[w])

\* a later iteration of some worker has left the rollout loop early
C6_Witness ==
  \E w \in Workers :
    /\ pc[w] = "bootstrap" /\ iters[w] >= 2
    /\ Len(history[w]) >= 1 /\ Len(history[w]) < t_max
    /\ env_terminal[w]

\* the frame stack after the last step: the last recorded state without its
\* oldest screen, then the screen of the last act
LastObserved(w) ==
  Append(Tail(history[w][Len(history[w])].state), Screen(env_acts[w]))

\* C7: the value that seeds the returns is exactly 0 when the environment is
\* in its end state after the last rollout step, and otherwise the local
\* value function on the frame stack after the last step.
C7_BootstrapValue ==
  \A w \in Workers :
    pc[w] = "compute_returns" =>
      /\ env_terminal[w] => r[w] = Real(0)
      /\ ~env_terminal[w] =>
           r[w] = Real(value(local_params[w], LastObserved(w)))

\* the rollout ended in the end state, in a state the value function does
\* not map to 0
C7_Witness ==
  \E w \in Workers :
    /\ pc[w] = "compute_returns" /\ env_terminal[w]
    /\ value(local_params[w], next_state[w]) # 0
    /\ r[w] = Real(0)

\* the return of step record i (in time order) in the batch run() built
ReturnOf(w, i) == reward_batch[w][Len(history[w]) + 1 - i][1]

\* C8: with n step records, rewards r_1..r_n and bootstrap R0, the batches
\* hold one entry per record; R_n = r_n + gamma*R0 and R_i = r_i +
\* gamma*R_(i+1) for i < n; and the return of record i is at the batch index
\* of its state and of the one-hot vector of its action.
C8_ReturnRecursion ==
  \A w \in Workers :
    pc[w] = "accumulate_gradients" =>
      LET n == Len(history[w])
      IN  /\ Len(states_batch[w]) = n
          /\ Len(action_batch[w]) = n
          /\ Len(reward_batch[w]) = n
          /\ \A i \in 1..n :
               LET j == n + 1 - i
                   rec == history[w][i]
               IN  /\ states_batch[w][j] = rec.state
                   /\ \A a \in 0..(NUM_ACTIONS - 1) :
                        action_batch[w][j][a + 1] =
                          IF a = rec.action THEN 1 ELSE 0
                   /\ reward_batch[w][j] = <<ReturnOf(w, i)>>
                   /\ ReturnOf(w, i) =
                        PlusGammaTimes(rec.reward,
                          IF i = n THEN bootstrap_value(w)
                          ELSE ReturnOf(w, i + 1))

\* a full rollout with different rewards and actions and a bootstrap that
\* is not 0
C8_Witness ==
  \E w \in Workers :
    /\ pc[w] = "accumulate_gradients"
    /\ Len(history[w]) = t_max
    /\ history[w][1].reward # history[w][t_max].reward
    /\ history[w][1].action # history[w][t_max].action
    /\ bootstrap_value(w) # Real(0)

\* C9: what an apply hands to the optimizer is, element by element, the
\* accumulator clamped into [-40, 40]: above 40 it is 40, below -40 it is
\* -40, inside the range it is the accumulator's element.
C9_GradientClipping ==
  \A w \in Workers :
    clipped_grads[w] # None =>
      \A i \in Tensors :
        /\ local_grads[w][i] > grad_clip => clipped_grads[w][i] = grad_clip
        /\ local_grads[w][i] < -grad_clip => clipped_grads[w][i] = -grad_clip
        /\ (local_grads[w][i] >= -grad_clip /\ local_grads[w][i] <= grad_clip)
             => clipped_grads[w][i] = local_grads[w][i]

\* an apply of an accumulator with one element above the range and one
\* inside it
C9_Witness ==
  \E w \in Workers :
    /\ clipped_grads[w] # None
    /\ \E i \in Tensors : local_grads[w][i] > grad_clip
    /\ \E i \in Tensors :
         local_grads[w][i] # 0 /\ local_grads[w][i] > -grad_clip
           /\ local_grads[w][i] < grad_clip

\* C10: from its reset to the accumulate of the iteration the accumulator is
\* zero; from the accumulate on it is the gradient accumulated in this
\* iteration; an apply comes after a reset, and what it hands over is this
\* iteration's gradient (clamped), with nothing of earlier iterations.
C10_AccumulatorHoldsThisIteration ==
  \A w \in Workers :
    /\ pc[w] \in {"sync_network_parameters", "get_initial_state",
                  "environment_reset", "play_game", "bootstrap",
                  "compute_returns", "accumulate_gradients"} =>
         local_grads[w] = zeros
    /\ pc[w] = "update_shared_gradients" =>
         /\ iters[w] >= 1
         /\ grads[w] # None
         /\ local_grads[w] = grads[w]
    /\ clipped_grads[w] # None =>
         /\ local_grads[w] = grads[w]
         /\ clipped_grads[w] =
              [i \in Tensors |-> clip(grads[w][i], -grad_clip, grad_clip)]

\* the second apply of a worker whose first gradient was not zero
C10_Witness ==
  \E w \in Workers :
    /\ applies[w] >= 2 /\ pc[w] = "loop"
    /\ clipped_grads[w] # None
    /\ local_grads[w] # zeros

\* what the claim calls a worker's own state
Private(w) ==
  <<local_params[w], local_grads[w], t[w], t_start[w], history[w]>>

\* a step of worker w's run(): every one moves its position, its sync index
\* or its step counter
StepOf(w) == <<pc[w], sync_idx[w], t[w]>>' # <<pc[w], sync_idx[w], t[w]>>

\* C11: a step changes the local replica, the accumulator, t, t_start or the
\* trajectory of a worker only if it is a step of that worker and of no
\* other; and the replica of a worker changes only in its own sync, whatever
\* the other workers apply meanwhile.
C11_WorkerStateIsPrivate ==
  [][\A w \in Workers :
       /\ Private(w)' # Private(w) =>
            (StepOf(w) /\ \A v \in Workers \ {w} : ~StepOf(v))
       /\ local_params'[w] # local_params[w] =>
            pc[w] = "sync_network_parameters"]_vars

\* a worker in its rollout on the replica it synced, while the shared
\* parameters have been written by an apply since
C11_Witness ==
  \E w \in Workers :
    /\ pc[w] = "play_game" /\ Len(history[w]) >= 1
    /\ \A i \in Tensors : local_params[w][i] < shared_params[i]
    /\ \E v \in Workers \ {w} : applies[v] >= 1

\* C12: a worker on which a loop listener is registered has called it once
\* for each iteration it has completed, with itself and the number of the
\* iteration; a worker without a listener has made no call.
C12_LoopListenerInvoked ==
  \A w \in Workers :
    pc[w] \in {"loop", "done"} =>
      IF loop_listener[w] # None
      THEN /\ Len(listener_calls[w]) = applies[w]
           /\ \A k \in 1..Len(listener_calls[w]) :
                listener_calls[w][k] = <<w, k>>
      ELSE listener_calls[w] = <<>>

\* worker w passes the loop test and begins an iteration
BeginsIteration(w) == pc[w] = "loop" /\ pc'[w] \notin {"loop", "done"}

\* the environment of worker w as the worker can tell it
Environment(w) == <<env_acts[w], env_terminal[w], episode_start[w]>>

C14_InitialObservationOfThisEpisode ==
  \A w \in Workers :
    (pc[w] = "play_game" /\ history[w] = <<>>) =>
      /\ next_state[w] = initial_state[w]
      /\ Len(initial_state[w]) = num_channels
      /\ \A k \in 1..Len(initial_state[w]) :
           \E a \in (episode_start[w] + 1)..env_acts[w] :
             initial_state[w][k] = Screen(a)

\* the sum of the rewards of one step, each clamped to [-1, 1]
RECURSIVE ClampedSum(_)
ClampedSum(rs) ==
  IF rs = <<>> THEN 0 ELSE clip(Head(rs), -1, 1) + ClampedSum(Tail(rs))

\* C15: the reward of each step record is the sum of the clamped rewards of
\* the skip_num acts of that step, with nothing of the steps before it.
C15_RecordedRewardIsOfItsStep ==
  \A w \in Workers :
    /\ Len(env_rewards[w]) = Len(history[w])
    /\ \A i \in 1..Len(history[w]) :
         /\ Len(env_rewards[w][i]) = skip_num
         /\ history[w][i].reward = ClampedSum(env_rewards[w][i])

\* C16 as stated: the reward of each step record is the sum of the skip_num
\* rewards of its step clamped once, and so lies in [-1, 1].
C16_ClampedOncePerOuterStep ==
  \A w \in Workers :
    \A i \in 1..Len(history[w]) :
      /\ history[w][i].reward = clip(RawSum(env_rewards[w][i]), -1, 1)
      /\ history[w][i].reward >= -1 /\ history[w][i].reward <= 1

\* what step i of the rollout added to the recorded reward
StepGain(w, i) ==
  history[w][i].reward - (IF i = 1 THEN 0 ELSE history[w][i - 1].reward)

\* C16, amended: each of the skip_num rewards of a step is clamped to
\* [-1, 1] before it is added, so what a step adds to the recorded reward is
\* the sum of its clamped rewards and lies in [-skip_num, skip_num].
C16_ClampedPerSubStep ==
  \A w \in Workers :
    \A i \in 1..Len(history[w]) :
      /\ StepGain(w, i) = ClampedSum(env_rewards[w][i])
      /\ StepGain(w, i) >= -skip_num /\ StepGain(w, i) <= skip_num

\* a later step whose rewards sum to more than 1 clamped one by one, and to
\* something else again unclamped
C16_Witness ==
  \E w \in Workers :
    /\ Len(history[w]) >= 2
    /\ StepGain(w, 2) > 1
    /\ RawSum(env_rewards[w][2]) # StepGain(w, 2)
    /\ RawSum(env_rewards[w][1]) < -1

C18_FinalStepWithinWorkers ==
  /\ shared_counter <= t_max + threads_num - 1
  /\ ((\A w \in Workers : pc[w] = "done" /\ stop[w] = FALSE)
        => shared_counter >= t_max)

\* all workers stopped by the ceiling, the global step at the upper end
C18_Witness ==
  /\ threads_num >= 2
  /\ \A w \in Workers : pc[w] = "done" /\ stop[w] = FALSE
  /\ shared_counter = t_max + threads_num - 1
  /\ \A w \in Workers : applies[w] = iters[w]

\* C19: a step in which a worker calls environment.act (the warm-up of
\* get_initial_state, a rollout step of play_game) starts with the
\* environment not in its end state.
C19_NoActOnTerminalEnvironment ==
  [][\A w \in Workers :
       env_acts'[w] # env_acts[w] => env_terminal[w] = FALSE]_vars

====
